---- MODULE Spec2Model ----
(***************************************************************************)
(* Model of youtube_downloader_app.py: a Streamlit script that is re-run   *)
(* from top to bottom on every user interaction.  The session record       *)
(* (st.session_state) survives the re-runs; everything else is rebuilt.    *)
(* Python strings are sequences of one-character strings, Python None is   *)
(* the empty tuple and a present optional value v is the 1-tuple <<v>>.    *)
(***************************************************************************)
EXTENDS Integers, Sequences, FiniteSets, TLC

VARIABLES
    session_state,    \* st.session_state (lines 29-42, plus download_type)
    url,              \* value of the text input widget (line 46)
    pc,               \* position of the running script pass; "idle" between passes
    yt,               \* the YouTube object built at line 96, None outside an attempt
    sanitized_title,  \* local of line 102
    stream,           \* local of lines 107-123
    buffer,           \* BytesIO of line 135
    bytes_remaining,  \* pytube's countdown handed to progress_callback
    ui,               \* what the placeholders and widgets show
    steps,            \* steps taken by the current / most recent attempt
    outcomes          \* outcomes of the last two attempts, oldest first

vars == <<session_state, url, pc, yt, sanitized_title, stream, buffer,
          bytes_remaining, ui, steps, outcomes>>

-----------------------------------------------------------------------------
(* Optional values and Python truthiness *)

None == <<>>

Some(v) == <<v>>

\* bool(x) for an optional string / bytes value: None and "" / b"" are falsy
Truthy(opt) == opt # None /\ Len(opt[1]) > 0

-----------------------------------------------------------------------------
(* Bounds *)

MaxBytes == 2        \* longest byte sequence a transfer delivers

MaxTitleLen == 3     \* longest title of the exhaustive title set

-----------------------------------------------------------------------------
(* String literals of the script *)

MP4 == <<"m", "p", "4">>

MP3 == <<"m", "p", "3">>

ExtMp4 == <<".", "m", "p", "4">>

ExtMp3 == <<".", "m", "p", "3">>

MimeMp4 == <<"v", "i", "d", "e", "o", "/", "m", "p", "4">>

MimeMp3 == <<"a", "u", "d", "i", "o", "/", "m", "p", "3">>

NoSuitable == <<"N", "o", " ", "s", "u", "i", "t", "a", "b", "l", "e", " ">>

StreamFound == <<" ", "s", "t", "r", "e", "a", "m", " ", "f", "o", "u", "n", "d", ".">>

AnErrorOccurred == <<"A", "n", " ", "e", "r", "r", "o", "r", " ", "o", "c", "c", "u", "r", "r", "e", "d", ":", " ">>

DivisionByZero == <<"d", "i", "v", "i", "s", "i", "o", "n", " ", "b", "y", " ", "z", "e", "r", "o">>

DownloadReady == <<"D", "o", "w", "n", "l", "o", "a", "d", " ", "R", "e", "a", "d", "y", "!">>

ProcessingComplete == <<"P", "r", "o", "c", "e", "s", "s", "i", "n", "g", " ", "C", "o", "m", "p", "l", "e", "t", "e", "!">>

ClickToDownload == <<"C", "l", "i", "c", "k", " ", "t", "o", " ", "D", "o", "w", "n", "l", "o", "a", "d", " ">>

-----------------------------------------------------------------------------
(* Character classes: str.isalnum and str.upper on the characters used *)

LowerCase == <<"a", "b", "c", "d", "e", "f", "g", "h", "i", "j", "k", "l", "m", "n", "o", "p", "q", "r", "s", "t", "u", "v", "w", "x", "y", "z">>

UpperCase == <<"A", "B", "C", "D", "E", "F", "G", "H", "I", "J", "K", "L", "M", "N", "O", "P", "Q", "R", "S", "T", "U", "V", "W", "X", "Y", "Z">>

Digits == <<"0", "1", "2", "3", "4", "5", "6", "7", "8", "9">>

Range(s) == {s[i] : i \in DOMAIN s}

\* str.isalpha in the place of str.isalnum
isalnum_LettersOnly(c) == c \in Range(LowerCase) \cup Range(UpperCase)

isalnum(c) == c \in Range(LowerCase) \cup Range(UpperCase) \cup Range(Digits)

upperChar(c) ==
    IF c \in Range(LowerCase)
    THEN UpperCase[CHOOSE i \in DOMAIN LowerCase : LowerCase[i] = c]
    ELSE c

\* str.upper()
upper(s) == [i \in DOMAIN s |-> upperChar(s[i])]

\* str.rstrip(): drop trailing whitespace
RECURSIVE rstrip(_)
rstrip(s) ==
    IF s = <<>> THEN <<>>
    ELSE IF s[Len(s)] \in {" ", "\t", "\n"} THEN rstrip(SubSeq(s, 1, Len(s) - 1))
    ELSE s

\* "".join(c for c in title if c.isalnum() or c in (' ', '.', '_', '-'))
RECURSIVE KeepAllowed(_)
KeepAllowed(s) ==
    IF s = <<>> THEN <<>>
    ELSE IF isalnum(Head(s)) \/ Head(s) \in {" ", ".", "_", "-"}
         THEN <<Head(s)>> \o KeepAllowed(Tail(s))
         ELSE KeepAllowed(Tail(s))

\* line 102 with .rstrip() applied to the title instead of to the joined string
Sanitize_StripFirst(title) == KeepAllowed(rstrip(title))

\* line 102
Sanitize(title) == rstrip(KeepAllowed(title))

-----------------------------------------------------------------------------
(* What the user and the resolver (pytube) can supply *)

EmptyUrl == <<>>

WatchUrl == <<"h", "t", "t", "p", "s", ":", "/", "/", "y", "o", "u", "t", "u", ".", "b", "e", "/", "x">>

Urls == {EmptyUrl, WatchUrl}

TestVideoTitle == <<"T", "e", "s", "t", ":", " ", "V", "i", "d", "e", "o", "!">>

Titles == {TestVideoTitle, <<"!">>}

Lengths == {59, 125}

Byte == {0, 1}

\* every stream pytube may list for a video (itag, as YouTube numbers them)
Catalogue ==
    { [itag |-> 22,  progressive |-> TRUE,  only_audio |-> FALSE, file_extension |-> "mp4",  rank |-> 720],
      [itag |-> 18,  progressive |-> TRUE,  only_audio |-> FALSE, file_extension |-> "mp4",  rank |-> 360],
      [itag |-> 43,  progressive |-> TRUE,  only_audio |-> FALSE, file_extension |-> "webm", rank |-> 480],
      [itag |-> 137, progressive |-> FALSE, only_audio |-> FALSE, file_extension |-> "mp4",  rank |-> 1080],
      [itag |-> 140, progressive |-> FALSE, only_audio |-> TRUE,  file_extension |-> "mp4",  rank |-> 128],
      [itag |-> 251, progressive |-> FALSE, only_audio |-> TRUE,  file_extension |-> "webm", rank |-> 160] }

\* str(e) of the exceptions the resolver raises; Exception() prints as ""
ExceptionTexts == {<<>>, <<"H", "T", "T", "P", " ", "4", "0", "3">>}

Chunks == {c \in UNION {[1..n -> Byte] : n \in 1..MaxBytes} : TRUE}

-----------------------------------------------------------------------------
(* The session record *)

ZeroProgress == [num |-> 0, den |-> 1]

\* lines 29-42: the keys created on the first pass; download_type is not among them
InitialSessionState ==
    [ download_progress |-> ZeroProgress,
      download_complete |-> FALSE,
      video_info        |-> None,
      download_error    |-> None,
      download_data     |-> None,
      download_filename |-> None,
      download_mime     |-> None,
      download_type     |-> None ]

\* line 13 without the division by total_size
progress_callback_NoDivide(ss, total_size, remaining) ==
    [ss EXCEPT !.download_progress =
        [num |-> (total_size - remaining) * 100, den |-> 1]]

\* lines 9-15, for total_size # 0: (bytes_downloaded / total_size) * 100
progress_callback(ss, total_size, remaining) ==
    [ss EXCEPT !.download_progress =
        [num |-> (total_size - remaining) * 100, den |-> total_size]]

\* lines 17-19
complete_callback(ss) == [ss EXCEPT !.download_complete = TRUE]

\* the reset block without line 82
ResetState_KeepsError(ss) ==
    [ss EXCEPT !.download_progress = ZeroProgress,
               !.download_complete = FALSE,
               !.video_info        = None,
               !.download_data     = None,
               !.download_filename = None,
               !.download_mime     = None]

\* the reset block without line 79
ResetState_KeepsProgress(ss) ==
    [ss EXCEPT !.download_complete = FALSE,
               !.video_info        = None,
               !.download_error    = None,
               !.download_data     = None,
               !.download_filename = None,
               !.download_mime     = None]

\* the reset block without line 83
ResetState_KeepsData(ss) ==
    [ss EXCEPT !.download_progress = ZeroProgress,
               !.download_complete = FALSE,
               !.video_info        = None,
               !.download_error    = None,
               !.download_filename = None,
               !.download_mime     = None]

\* lines 79-85
ResetState(ss) ==
    [ss EXCEPT !.download_progress = ZeroProgress,
               !.download_complete = FALSE,
               !.video_info        = None,
               !.download_error    = None,
               !.download_data     = None,
               !.download_filename = None,
               !.download_mime     = None]

\* the handler without line 170
ExceptHandler_KeepsInfo(ss, e) ==
    [ss EXCEPT !.download_error = Some(AnErrorOccurred \o e),
               !.download_data  = None]

\* lines 165-170: the message and the two fields the handler clears
ExceptHandler(ss, e) ==
    [ss EXCEPT !.download_error = Some(AnErrorOccurred \o e),
               !.download_data  = None,
               !.video_info     = None]

\* line 103: title, yt.length // 60 and yt.length % 60 as the f-string shows them
VideoInfo(y) ==
    [title |-> y.title, minutes |-> y.length \div 60, seconds |-> y.length % 60]

\* line 131 without .upper()
NoStreamMessage_NoUpper(download_type) == NoSuitable \o download_type \o StreamFound

\* line 131
NoStreamMessage(download_type) == NoSuitable \o upper(download_type) \o StreamFound

-----------------------------------------------------------------------------
(* Stream selection, lines 111-128 *)

\* query.order_by(attr).desc().first(): the highest-ranked stream, or None
First(streams) ==
    IF streams = {} THEN None
    ELSE Some(CHOOSE s \in streams : \A t \in streams : t.rank <= s.rank)

\* line 114
SelectMp4(streams) ==
    First({s \in streams : s.progressive /\ s.file_extension = "mp4"})

\* line 123
SelectMp3(streams) == First({s \in streams : s.only_audio})

SelectStream(download_type, streams) ==
    IF download_type = MP4 THEN SelectMp4(streams)
    ELSE IF download_type = MP3 THEN SelectMp3(streams)
    ELSE None

\* lines 125-128 recording the MP4 pair in the MP3 branch
RecordOutput_Mp3AsMp4(ss, title) ==
    IF ss.download_type \in {Some(MP4), Some(MP3)}
    THEN [ss EXCEPT !.download_filename = Some(title \o ExtMp4),
                    !.download_mime     = Some(MimeMp4)]
    ELSE ss

\* lines 115-118 and 125-128
RecordOutput(ss, title) ==
    IF ss.download_type = Some(MP4)
    THEN [ss EXCEPT !.download_filename = Some(title \o ExtMp4),
                    !.download_mime     = Some(MimeMp4)]
    ELSE IF ss.download_type = Some(MP3)
    THEN [ss EXCEPT !.download_filename = Some(title \o ExtMp3),
                    !.download_mime     = Some(MimeMp3)]
    ELSE ss

-----------------------------------------------------------------------------
(* The page *)

\* a pass starts with every placeholder empty
EmptyUI ==
    [ warning |-> FALSE, status |-> None, progress |-> None,
      info |-> None, download_button |-> None ]

\* lines 55-68 without the "if url" test
ButtonHandler_NoUrlTest(ss, u, type) ==
    [ss |-> [ss EXCEPT !.download_type = Some(type)],
     download_triggered |-> TRUE, warning |-> FALSE]

\* lines 55-68: the handler of one button; type is the button clicked
ButtonHandler(ss, u, type) ==
    IF u # EmptyUrl
    THEN [ss |-> [ss EXCEPT !.download_type = Some(type)],
          download_triggered |-> TRUE, warning |-> FALSE]
    ELSE [ss |-> ss, download_triggered |-> FALSE, warning |-> TRUE]

\* lines 177-185
RenderDownloadButton(ss, page) ==
    IF Truthy(ss.download_data) /\ Truthy(ss.download_filename)
    THEN [page EXCEPT !.download_button =
            Some([ label     |-> ClickToDownload \o ss.download_filename[1],
                   data      |-> ss.download_data[1],
                   file_name |-> ss.download_filename[1],
                   mime      |-> ss.download_mime ])]
    ELSE page

\* lines 188-189
RenderInfo(ss, page, download_triggered) ==
    IF ss.video_info # None /\ ~download_triggered /\ ~Truthy(ss.download_data)
    THEN [page EXCEPT !.info = ss.video_info]
    ELSE page

\* lines 191-192
RenderError(ss, page, download_triggered) ==
    IF Truthy(ss.download_error) /\ ~download_triggered
    THEN [page EXCEPT !.status = Some([kind |-> "error", text |-> ss.download_error[1]])]
    ELSE page

\* lines 175-192: the tail of every pass
Render(ss, page, download_triggered) ==
    RenderError(ss, RenderInfo(ss, RenderDownloadButton(ss, page), download_triggered),
                download_triggered)

\* lines 167 and 171-173
ExceptPage(ss, page) ==
    [page EXCEPT !.status = Some([kind |-> "error", text |-> ss.download_error[1]]),
                 !.progress = None, !.info = None, !.download_button = None]

Push(window, outcome) == <<window[2], outcome>>

-----------------------------------------------------------------------------
(* The script passes *)

Init ==
    /\ session_state = InitialSessionState
    /\ url = EmptyUrl
    /\ pc = "idle"
    /\ yt = None
    /\ sanitized_title = None
    /\ stream = None
    /\ buffer = <<>>
    /\ bytes_remaining = 0
    /\ ui = EmptyUI
    /\ steps = <<>>
    /\ outcomes = <<"none", "none">>

Locals == <<yt, sanitized_title, stream, buffer, bytes_remaining>>

\* the attempt is over: lines 175-192 run with download_triggered still True
EndAttempt(ss, page, trail, outcome) ==
    /\ session_state' = ss
    /\ ui' = Render(ss, page, TRUE)
    /\ pc' = "idle"
    /\ yt' = None
    /\ sanitized_title' = None
    /\ stream' = None
    /\ buffer' = <<>>
    /\ bytes_remaining' = 0
    /\ steps' = Append(trail, outcome)
    /\ outcomes' = Push(outcomes, outcome)
    /\ UNCHANGED url

\* an exception swallowed where it is raised: the error is recorded and the
\* attempt flow goes on
Raise_Continues(e) ==
    /\ session_state' = ExceptHandler(session_state, e)
    /\ steps' = Append(steps, "raise")
    /\ UNCHANGED <<url, pc, Locals, ui, outcomes>>

\* lines 165-173, then the tail of the pass
Raise(e) ==
    LET ss == ExceptHandler(session_state, e)
    IN  EndAttempt(ss, ExceptPage(ss, ui), Append(steps, "raise"), "failed")

\* the user commits another text in the URL field: a pass with no button pressed
EditUrl(u) ==
    /\ pc = "idle"
    /\ u # url
    /\ url' = u
    /\ ui' = Render(session_state, EmptyUI, FALSE)
    /\ UNCHANGED <<session_state, pc, Locals, steps, outcomes>>

\* a download click that consumes the buffered artifact
ClickDownloadButton_ClearsData ==
    /\ pc = "idle"
    /\ ui.download_button # None
    /\ session_state' = [session_state EXCEPT !.download_data = None]
    /\ ui' = Render(session_state', EmptyUI, FALSE)
    /\ UNCHANGED <<url, pc, Locals, steps, outcomes>>

\* the user clicks the rendered download button: a pass with no button pressed
ClickDownloadButton ==
    /\ pc = "idle"
    /\ ui.download_button # None
    /\ ui' = Render(session_state, EmptyUI, FALSE)
    /\ UNCHANGED <<session_state, url, pc, Locals, steps, outcomes>>

\* lines 52-90: "Download MP4 (Video)" or "Download MP3 (Audio)" is clicked
ClickButton(type) ==
    /\ pc = "idle"
    /\ LET h == ButtonHandler(session_state, url, type)
       IN  IF h.download_triggered
           THEN /\ session_state' = ResetState(h.ss)
                /\ ui' = EmptyUI
                /\ pc' = "resolve"
                /\ steps' = <<"reset">>
           ELSE /\ session_state' = h.ss
                /\ ui' = Render(h.ss, [EmptyUI EXCEPT !.warning = h.warning], FALSE)
                /\ pc' = "idle"
                /\ steps' = steps
    /\ UNCHANGED <<url, Locals, outcomes>>

\* lines 96-105: the resolver answers with a title, a length and its streams
Resolve(title, length, streams) ==
    /\ pc = "resolve"
    /\ yt' = Some([title |-> title, length |-> length, streams |-> streams])
    /\ sanitized_title' = Some(Sanitize(title))
    /\ session_state' = [session_state EXCEPT !.video_info = Some(VideoInfo(yt'[1]))]
    /\ ui' = [ui EXCEPT !.info = session_state'.video_info]
    /\ pc' = "select"
    /\ steps' = Append(steps, "resolve")
    /\ UNCHANGED <<url, stream, buffer, bytes_remaining, outcomes>>

\* lines 96-103 raise (bad URL, network failure, unavailable video)
ResolveRaise(e) ==
    /\ pc = "resolve"
    /\ Raise(e)

\* lines 107-139: pick the stream; without one, line 131 ends the attempt
Select(filesize) ==
    /\ pc = "select"
    /\ LET found == SelectStream(session_state.download_type[1], yt[1].streams)
           ss    == RecordOutput(session_state, sanitized_title[1])
       IN  IF found = None
           THEN LET failed == [ss EXCEPT !.download_error =
                                  Some(NoStreamMessage(ss.download_type[1]))]
                IN  /\ filesize = 0
                    /\ EndAttempt(failed,
                          [ui EXCEPT !.status = Some([kind |-> "error",
                                                      text |-> failed.download_error[1]])],
                          Append(steps, "nostream"), "failed")
           ELSE /\ session_state' = ss
                /\ stream' = Some([itag |-> found[1].itag, filesize |-> filesize])
                /\ buffer' = <<>>
                /\ bytes_remaining' = filesize
                /\ ui' = [ui EXCEPT !.progress = Some(ss.download_progress)]
                /\ pc' = "transfer"
                /\ steps' = steps \o <<"select", "transfer">>
                /\ UNCHANGED <<url, yt, sanitized_title, outcomes>>

\* yt.streams (lines 114, 123) raises before the filename is recorded
SelectRaise(e) ==
    /\ pc = "select"
    /\ Raise(e)

\* pytube's on_progress inside stream_to_buffer (line 140): the chunk is written
\* to the buffer and progress_callback runs, which divides by stream.filesize
TransferChunk(chunk) ==
    /\ pc = "transfer"
    /\ Len(buffer) + Len(chunk) <= MaxBytes
    /\ IF stream[1].filesize = 0
       THEN Raise(DivisionByZero)
       ELSE /\ buffer' = buffer \o chunk
            /\ bytes_remaining' = bytes_remaining - Len(chunk)
            /\ session_state' = progress_callback(session_state, stream[1].filesize,
                                                  bytes_remaining')
            /\ steps' = IF steps[Len(steps)] = "progress" THEN steps
                        ELSE Append(steps, "progress")
            /\ UNCHANGED <<url, pc, yt, sanitized_title, stream, ui, outcomes>>

\* pytube's on_complete at the end of stream_to_buffer: complete_callback runs
OnComplete ==
    /\ pc = "transfer"
    /\ session_state' = complete_callback(session_state)
    /\ pc' = "completed"
    /\ steps' = Append(steps, "complete")
    /\ UNCHANGED <<url, Locals, ui, outcomes>>

\* lines 155-162 treating a missing completion callback as a failure
TransferReturn_NeedsCallback ==
    /\ pc \in {"transfer", "completed"}
    /\ LET ss == IF session_state.download_complete
                 THEN [session_state EXCEPT !.download_data = Some(buffer)]
                 ELSE [session_state EXCEPT !.download_error = Some(AnErrorOccurred)]
           message == IF ss.download_complete THEN DownloadReady ELSE ProcessingComplete
       IN  EndAttempt(ss,
              [ui EXCEPT !.status = Some([kind |-> IF ss.download_complete
                                                   THEN "success" ELSE "error",
                                          text |-> message]),
                         !.progress = None],
              steps, "ready")

\* stream_to_buffer returns: lines 146-162
TransferReturn ==
    /\ pc \in {"transfer", "completed"}
    /\ LET ss == [session_state EXCEPT !.download_data = Some(buffer)]
           message == IF ss.download_complete THEN DownloadReady ELSE ProcessingComplete
       IN  EndAttempt(ss,
              [ui EXCEPT !.status = Some([kind |-> "success", text |-> message]),
                         !.progress = None],
              steps, "ready")

\* stream_to_buffer raises (line 140)
TransferRaise(e) ==
    /\ pc \in {"transfer", "completed"}
    /\ Raise(e)

\* the steps of a running attempt, lines 93-173
AttemptStep ==
    \/ \E title \in Titles, length \in Lengths, streams \in SUBSET Catalogue :
          Resolve(title, length, streams)
    \/ \E e \in ExceptionTexts : ResolveRaise(e) \/ SelectRaise(e) \/ TransferRaise(e)
    \/ \E filesize \in 0..MaxBytes : Select(filesize)
    \/ \E chunk \in Chunks : TransferChunk(chunk)
    \/ OnComplete
    \/ TransferReturn

Next ==
    \/ \E u \in Urls : EditUrl(u)
    \/ ClickDownloadButton
    \/ \E type \in {MP4, MP3} : ClickButton(type)
    \/ \E title \in Titles, length \in Lengths, streams \in SUBSET Catalogue :
          Resolve(title, length, streams)
    \/ \E e \in ExceptionTexts : ResolveRaise(e)
    \/ \E filesize \in 0..MaxBytes : Select(filesize)
    \/ \E e \in ExceptionTexts : SelectRaise(e)
    \/ \E chunk \in Chunks : TransferChunk(chunk)
    \/ OnComplete
    \/ TransferReturn
    \/ \E e \in ExceptionTexts : TransferRaise(e)

Spec == Init /\ [][Next]_vars

-----------------------------------------------------------------------------
(* Lines 102 and 117 / 127 on every title over a small alphabet *)

TitleAlphabet == {"a", "7", " ", ".", "_", "-", ":"}

AllTitles ==
    UNION {[1..n -> TitleAlphabet] : n \in 0..MaxTitleLen} \cup {TestVideoTitle}

TitleInit ==
    /\ \E type \in {MP4, MP3} :
          session_state = [InitialSessionState EXCEPT !.download_type = Some(type)]
    /\ \E title \in AllTitles :
          yt = Some([title |-> title, length |-> 125, streams |-> {}])
    /\ url = WatchUrl
    /\ pc = "line102"
    /\ sanitized_title = None
    /\ stream = None
    /\ buffer = <<>>
    /\ bytes_remaining = 0
    /\ ui = EmptyUI
    /\ steps = <<>>
    /\ outcomes = <<"none", "none">>

\* line 102
SanitizeTitle ==
    /\ pc = "line102"
    /\ sanitized_title' = Some(Sanitize(yt[1].title))
    /\ pc' = "line117"
    /\ UNCHANGED <<session_state, url, yt, stream, buffer, bytes_remaining, ui,
                   steps, outcomes>>

\* lines 115-118 or 125-128
RecordFilename ==
    /\ pc = "line117"
    /\ session_state' = RecordOutput(session_state, sanitized_title[1])
    /\ pc' = "recorded"
    /\ UNCHANGED <<url, Locals, ui, steps, outcomes>>

\* the expression of line 102 applied to its own result
SanitizeAgain ==
    /\ pc = "recorded"
    /\ sanitized_title' = Some(Sanitize(sanitized_title[1]))
    /\ pc' = "resanitized"
    /\ UNCHANGED <<session_state, url, yt, stream, buffer, bytes_remaining, ui,
                   steps, outcomes>>

TitleNext == SanitizeTitle \/ RecordFilename \/ SanitizeAgain

TitleSpec == TitleInit /\ [][TitleNext]_vars

-----------------------------------------------------------------------------
(* Properties *)

Last(s) == s[Len(s)]

EndsWith(s, suffix) ==
    /\ Len(s) >= Len(suffix)
    /\ SubSeq(s, Len(s) - Len(suffix) + 1, Len(s)) = suffix

\* the most recent attempt has run to its end and no other is running
AttemptOver == pc = "idle" /\ outcomes[2] # "none"

\* C1: once an attempt has completed, exactly one of download_data and
\* download_error is set (not None), and download_data is set exactly when
\* the most recent attempt ended without error.
C1_ExactlyOneOutcome ==
    AttemptOver =>
        /\ (session_state.download_data # None) # (session_state.download_error # None)
        /\ (session_state.download_data # None) <=> (outcomes[2] = "ready")

C1_Witness ==
    /\ AttemptOver
    /\ outcomes = <<"failed", "ready">>
    /\ session_state.download_data # None
    /\ session_state.download_error = None

\* C2: between passes, download_filename and download_mime are set only
\* together with download_data.
C2_OutputOnlyWithBytes ==
    pc = "idle" =>
        /\ session_state.download_filename # None => session_state.download_data # None
        /\ session_state.download_mime # None => session_state.download_data # None

NoSuitableAudio == <<"N", "o", " ", "s", "u", "i", "t", "a", "b", "l", "e", " ", "A", "U", "D", "I", "O", " ", "s", "t", "r", "e", "a", "m", " ", "f", "o", "u", "n", "d", ".">>

NoSuitableMP3 == <<"N", "o", " ", "s", "u", "i", "t", "a", "b", "l", "e", " ", "M", "P", "3", " ", "s", "t", "r", "e", "a", "m", " ", "f", "o", "u", "n", "d", ".">>

\* the audio request found no audio-only stream in the resolved video
AudioNotFound ==
    /\ "nostream" \in Range(steps)
    /\ session_state.download_type = Some(MP3)

\* C3 as stated: an audio request that finds no audio-only stream ends with
\* download_error = "No suitable AUDIO stream found.", no download_data and
\* no transfer step.
C3_AudioMessage ==
    AudioNotFound =>
        /\ pc = "idle"
        /\ steps = <<"reset", "resolve", "nostream", "failed">>
        /\ session_state.download_error = Some(NoSuitableAudio)
        /\ session_state.download_data = None

\* C3 amended: an audio request that finds no audio-only stream ends at once
\* (nothing runs after the selection, so no byte is transferred) with
\* download_error = "No suitable MP3 stream found." shown as the status and
\* download_data not set.
C3_Mp3Message ==
    AudioNotFound =>
        /\ pc = "idle"
        /\ steps = <<"reset", "resolve", "nostream", "failed">>
        /\ session_state.download_error = Some(NoSuitableMP3)
        /\ ui.status = Some([kind |-> "error", text |-> NoSuitableMP3])
        /\ session_state.download_data = None
        /\ ui.download_button = None

C3_Witness ==
    /\ AudioNotFound
    /\ pc = "idle"
    /\ session_state.video_info # None

\* C4: an attempt in which the resolver or the transfer raised ends, with the
\* pass run to its end, with a non-empty download_error shown as the status
\* and with download_data and video_info both None.
C4_ExceptionCaught ==
    "raise" \in Range(steps) =>
        /\ pc = "idle"
        /\ Last(steps) = "failed"
        /\ Truthy(session_state.download_error)
        /\ ui.status = Some([kind |-> "error", text |-> session_state.download_error[1]])
        /\ session_state.download_data = None
        /\ session_state.video_info = None

\* the transfer raised after progress callbacks had fired
C4_Witness ==
    /\ pc = "idle"
    /\ "progress" \in Range(steps)
    /\ "raise" \in Range(steps)
    /\ session_state.download_progress.num > 0

\* C5: when the resolver is about to be called, the reset has happened:
\* download_progress is 0, download_complete is False, download_error,
\* download_data and video_info are None, and no step of the new attempt
\* (so no callback) has run yet.
C5_ResetBeforeResolve ==
    pc = "resolve" =>
        /\ session_state.download_progress.num = 0
        /\ session_state.download_complete = FALSE
        /\ session_state.download_error = None
        /\ session_state.download_data = None
        /\ session_state.video_info = None
        /\ steps = <<"reset">>
        /\ buffer = <<>>

\* a new attempt starts from a session that has seen a success and then a failure
C5_Witness ==
    /\ pc = "resolve"
    /\ outcomes[2] = "failed"
    /\ outcomes[1] = "ready"

\* C6: a button click with an empty URL starts no attempt and leaves the whole
\* session record unchanged; the pass shows the validation warning.
C6_EmptyUrlNoChange ==
    [][ (url = EmptyUrl /\ \E type \in {MP4, MP3} : ClickButton(type)) =>
            /\ session_state' = session_state
            /\ pc' = "idle"
            /\ steps' = steps
            /\ ui'.warning ]_vars

\* the warning is shown while an earlier artifact is still offered
C6_Witness ==
    /\ pc = "idle"
    /\ url = EmptyUrl
    /\ ui.warning
    /\ ui.download_button # None

\* C7: between passes, after a failed attempt download_data is None and no
\* download button is rendered, whatever succeeded before; after a
\* successful attempt download_error is None and no error is rendered.
C7_LatestOutcomeWins ==
    pc = "idle" =>
        /\ outcomes[2] = "failed" =>
              /\ session_state.download_data = None
              /\ ui.download_button = None
        /\ outcomes[2] = "ready" =>
              /\ session_state.download_error = None
              /\ ui.status = None \/ ui.status[1].kind # "error"

C7_Witness ==
    /\ pc = "idle"
    /\ outcomes = <<"ready", "failed">>
    /\ session_state.download_error # None

\* C8: whenever the transfer ends without raising, the attempt ends ready:
\* download_data is the buffer's content, download_error is None and a
\* success status is shown, whether or not complete_callback has fired.
C8_ReadyWithoutCallback ==
    [][ (pc \in {"transfer", "completed"} /\ pc' = "idle" /\ "raise" \notin Range(steps')) =>
            /\ session_state'.download_data = Some(buffer)
            /\ session_state'.download_error = None
            /\ ui'.status # None /\ ui'.status[1].kind = "success"
            /\ Last(steps') = "ready" ]_vars

\* ready with bytes although the completion callback never fired
C8_Witness ==
    /\ pc = "idle"
    /\ "ready" \in Range(steps)
    /\ "complete" \notin Range(steps)
    /\ session_state.download_complete = FALSE
    /\ Truthy(session_state.download_data)

\* C9: a recorded download_filename / download_mime is the pair of the
\* requested kind: ".mp4" with "video/mp4" for mp4, ".mp3" with "audio/mp3"
\* for mp3, and the two are recorded together.
C9_FixedPairPerKind ==
    /\ (session_state.download_filename = None) <=> (session_state.download_mime = None)
    /\ session_state.download_filename # None =>
          \/ /\ session_state.download_type = Some(MP4)
             /\ EndsWith(session_state.download_filename[1], ExtMp4)
             /\ session_state.download_mime = Some(MimeMp4)
          \/ /\ session_state.download_type = Some(MP3)
             /\ EndsWith(session_state.download_filename[1], ExtMp3)
             /\ session_state.download_mime = Some(MimeMp3)

\* the audio stream selected is the webm one (itag 251)
C9_Witness ==
    /\ pc = "transfer"
    /\ stream[1].itag = 251
    /\ session_state.download_filename # None
    /\ EndsWith(session_state.download_filename[1], ExtMp3)

\* C10: between passes, if download_data and download_filename are set (not
\* None) the download button is rendered with exactly that data, file name
\* and mime type, a zero-length download_data included.
C10_ButtonWheneverData ==
    (pc = "idle" /\ session_state.download_data # None
                 /\ session_state.download_filename # None) =>
        /\ ui.download_button # None
        /\ ui.download_button[1].data = session_state.download_data[1]
        /\ ui.download_button[1].file_name = session_state.download_filename[1]
        /\ ui.download_button[1].mime = session_state.download_mime

\* C11: sanitization is idempotent: applying the expression of line 102 to an
\* already sanitized title leaves it as it is.
C11_SanitizeIdempotent ==
    [][ (pc = "recorded" /\ pc' = "resanitized") =>
            sanitized_title' = sanitized_title ]_vars

\* a title that loses a character and a trailing space has been sanitized twice
C11_Witness ==
    /\ pc = "resanitized"
    /\ yt[1].title = <<"a", " ", ":">>
    /\ sanitized_title = Some(<<"a">>)

\* the characters the rule keeps, written out
KeptCharacters ==
    Range(LowerCase) \cup Range(UpperCase) \cup Range(Digits) \cup {" ", ".", "_", "-"}

IsKept(c) == c \in KeptCharacters

\* the title's kept characters in their order, cut after the last one that is
\* not a space
ExpectedName(title) ==
    LET kept == SelectSeq(title, IsKept)
        n    == CHOOSE i \in 0..Len(kept) :
                   /\ i = 0 \/ kept[i] # " "
                   /\ \A j \in (i + 1)..Len(kept) : kept[j] = " "
    IN  SubSeq(kept, 1, n)

TestVideoMp4 == <<"T", "e", "s", "t", " ", "V", "i", "d", "e", "o", ".", "m", "p", "4">>

\* C12: the recorded download_filename is the resolved title with every
\* character other than alphanumerics, space, '.', '_' and '-' removed, order
\* and interior spaces kept, trailing spaces cut, followed by the extension of
\* the kind; "Test: Video!" as mp4 gives "Test Video.mp4".
C12_FilenameFromTitle ==
    (yt # None /\ session_state.download_filename # None) =>
        /\ session_state.download_filename[1] =
              ExpectedName(yt[1].title) \o
              (IF session_state.download_type = Some(MP4) THEN ExtMp4 ELSE ExtMp3)
        /\ (yt[1].title = TestVideoTitle /\ session_state.download_type = Some(MP4)) =>
              session_state.download_filename = Some(TestVideoMp4)

C12_Witness ==
    /\ pc = "recorded"
    /\ yt[1].title = TestVideoTitle
    /\ session_state.download_type = Some(MP4)
    /\ session_state.download_filename = Some(TestVideoMp4)

\* 0 <= p <= 100 for the fraction p.num / p.den
InPercentRange(p) == p.den > 0 /\ 0 <= p.num /\ p.num <= 100 * p.den

\* C13: download_progress is 0 at session start; it changes only in the reset
\* block, which stores 0, and in progress_callback, which stores a value in
\* [0,100] whenever 0 <= bytes_remaining <= stream.filesize (a filesize of 0
\* stores nothing); so it is in [0,100] throughout a transfer that has not
\* delivered more than the reported filesize.
C13_ProgressInRange ==
    /\ session_state.download_progress = ZeroProgress
    /\ [](  (pc \in {"transfer", "completed"} /\ bytes_remaining >= 0) =>
                InPercentRange(session_state.download_progress) )
    /\ [][ session_state'.download_progress # session_state.download_progress =>
              \/ /\ pc = "idle" /\ pc' = "resolve"
                 /\ session_state'.download_progress = ZeroProgress
              \/ /\ pc = "transfer" /\ pc' = "transfer"
                 /\ (0 <= bytes_remaining' /\ bytes_remaining' <= stream[1].filesize) =>
                        InPercentRange(session_state'.download_progress) ]_vars

\* half of a two-byte stream has arrived
C13_Witness ==
    /\ pc = "transfer"
    /\ stream[1].filesize = 2
    /\ bytes_remaining = 1
    /\ session_state.download_progress = [num |-> 100, den |-> 2]

\* what may directly precede each step of an attempt
MayFollow(before, step) ==
    CASE step = "resolve"  -> before = "reset"
      [] step = "select"   -> before = "resolve"
      [] step = "nostream" -> before = "resolve"
      [] step = "transfer" -> before = "select"
      [] step = "progress" -> before = "transfer"
      [] step = "complete" -> before \in {"transfer", "progress"}
      [] step = "ready"    -> before \in {"transfer", "progress", "complete"}
      [] step = "raise"    -> before \in {"reset", "resolve", "transfer", "progress", "complete"}
      [] step = "failed"   -> before \in {"raise", "nostream"}
      [] OTHER             -> FALSE

\* resolve -> select -> transfer -> ready | failed, an error ending the attempt at once
OrderedTrail(s) ==
    /\ s # <<>> => s[1] = "reset"
    /\ \A i \in 2..Len(s) :
          /\ MayFollow(s[i - 1], s[i])
          /\ s[i - 1] \in {"raise", "nostream"} => s[i] = "failed"
          /\ s[i] \in {"ready", "failed"} => i = Len(s)

\* how far the pass has come: the script position, then the bytes buffered
Advance ==
    (CASE pc = "resolve"   -> 1
       [] pc = "select"    -> 2
       [] pc = "transfer"  -> 3
       [] pc = "completed" -> 4
       [] OTHER            -> 5) * (MaxBytes + 1) + Len(buffer)

\* C14: the steps of an attempt come in the order resolve, select stream,
\* transfer, ready or failed; selection only after a resolution that returned,
\* transfer only after a stream was selected, an error ends the attempt at
\* once; a running attempt is never stuck and every one of its steps advances
\* it, so it ends, within the pass that started it, in exactly one of ready
\* and failed.
C14_AttemptOrder ==
    /\ []( /\ OrderedTrail(steps)
           /\ (pc = "idle" /\ steps # <<>>) => Last(steps) \in {"ready", "failed"}
           /\ pc # "idle" => /\ Last(steps) \notin {"ready", "failed"}
                             /\ ENABLED AttemptStep )
    /\ [][ pc # "idle" => Advance' > Advance ]_vars

\* a full attempt: resolved, selected, transferred with both callbacks, ready
C14_Witness ==
    /\ pc = "idle"
    /\ steps = <<"reset", "resolve", "select", "transfer", "progress", "complete", "ready">>

\* C15: a pass in which no attempt is started (the URL was edited, the
\* download button was clicked, or a button was clicked with an empty URL)
\* leaves the session record unchanged, and a download button rendered before
\* the pass is rendered again by it with the same content.
C15_ResultsPersist ==
    [][ (pc = "idle" /\ pc' = "idle") =>
            /\ session_state' = session_state
            /\ ui.download_button # None => ui'.download_button = ui.download_button ]_vars

\* the artifact of a successful attempt is still offered after the URL field
\* was emptied
C15_Witness ==
    /\ pc = "idle"
    /\ url = EmptyUrl
    /\ outcomes[2] = "ready"
    /\ ui.status = None
    /\ ~ui.warning
    /\ ui.download_button # None

\* C16: a pass in which no attempt is started renders the metadata text if
\* video_info is set and download_data is not, renders the error text if
\* download_error is set, and after a successful attempt renders the download
\* button and not the metadata text.
C16_PersistentRender ==
    [][ (pc = "idle" /\ pc' = "idle") =>
            /\ (session_state'.video_info # None /\ session_state'.download_data = None) =>
                  ui'.info = session_state'.video_info
            /\ session_state'.download_error # None =>
                  ui'.status = Some([kind |-> "error",
                                     text |-> session_state'.download_error[1]])
            /\ outcomes'[2] = "ready" =>
                  /\ ui'.download_button # None
                  /\ ui'.info = None ]_vars

\* C17: an attempt that failed during the transfer leaves download_progress
\* at 0, download_complete False and download_data None.
C17_NoPartialProgress ==
    (pc = "idle" /\ "transfer" \in Range(steps) /\ "raise" \in Range(steps)) =>
        /\ session_state.download_progress.num = 0
        /\ session_state.download_complete = FALSE
        /\ session_state.download_data = None

\* C18 as stated: between passes download_error and video_info are never both set.
C18_InfoClearedOnFailure ==
    pc = "idle" =>
        ~(session_state.download_error # None /\ session_state.video_info # None)

\* C18 amended: between passes, after a failed attempt video_info is None if
\* an exception ended the attempt and is still set if the stream selection
\* found nothing; a later pass then renders the metadata text together with
\* the error text.
C18_InfoClearedOnException ==
    (pc = "idle" /\ session_state.download_error # None) =>
        /\ "raise" \in Range(steps) =>
              /\ session_state.video_info = None
              /\ ui.info = None
        /\ "nostream" \in Range(steps) =>
              /\ session_state.video_info # None
              /\ ui.info = session_state.video_info
              /\ ui.status = Some([kind |-> "error", text |-> session_state.download_error[1]])
        /\ ("raise" \in Range(steps)) # ("nostream" \in Range(steps))

\* a pass after a failed stream selection: metadata and error are both shown
C18_Witness ==
    /\ pc = "idle"
    /\ url = EmptyUrl
    /\ "nostream" \in Range(steps)
    /\ session_state.video_info # None
    /\ ui.info = session_state.video_info
    /\ ui.status # None

====
